---- MODULE Spec2Model ----
(***************************************************************************)
(* Model of the interaction state machine and the embedded automated       *)
(* player of the chess GUI (chess_gui.py, chess_gui_sound.py).             *)
(*                                                                         *)
(* The rules library the program imports (python-chess) is an external     *)
(* collaborator.  It is modelled here by the same rules played on a board  *)
(* of Files x Ranks squares with kings, pawns, queens, rooks, bishops and  *)
(* knights: legal moves are the pseudo-legal moves that do not leave the   *)
(* mover's king attacked, pawns promote on the last rank to any of the     *)
(* four promotion pieces, push and pop keep a stack of earlier positions.  *)
(* Castling, the double pawn step and en passant do not exist on the small *)
(* board.  Draws by 75 moves or fivefold repetition need more plies than   *)
(* MaxPlies allows and cannot occur.  Behaviours are explored up to        *)
(* MaxSteps steps of the main loop and the threads together.               *)
(***************************************************************************)
EXTENDS Integers, Sequences, FiniteSets, TLC

\* ------------------------------------------------------------ bounds ----
Files == 3
Ranks == 3
MaxPlies == 4
MaxThreads == 2
MaxSteps == 19
MaxPieces == 2

\* --------------------------------------------------------- constants ----
WIDTH == 800
HEIGHT == 800
AI_BOARD_WIDTH == 720
AI_BOARD_HEIGHT == 720
SND_BOARD_WIDTH == 640
SND_BOARD_HEIGHT == 640

WHITE == TRUE
BLACK == FALSE
AI_PLAYER == BLACK

\* Python's None: as a promotion piece, and as a square (selected_square,
\* Board.king) where it has to be comparable with the square numbers.
None == "None"
NoSquare == 0 - 1
NoPiece == [t |-> "-", c |-> FALSE]

PieceTypes == {"P", "N", "B", "R", "Q", "K"}
PromotionPieces == {"Q", "R", "B", "N"}

\* A slip in the table: the king counted as a pawn.
PIECE_VALUES_KingCounted == [t \in PieceTypes |->
    CASE t = "P" -> 1 [] t = "N" -> 3 [] t = "B" -> 3
      [] t = "R" -> 5 [] t = "Q" -> 9 [] t = "K" -> 1]

PIECE_VALUES == [t \in PieceTypes |->
    CASE t = "P" -> 1 [] t = "N" -> 3 [] t = "B" -> 3
      [] t = "R" -> 5 [] t = "Q" -> 9 [] t = "K" -> 0]

\* ------------------------------------------------------------ squares ---
SQUARES == 0 .. (Files * Ranks - 1)

square(f, r) == r * Files + f
square_file(s) == s % Files
square_rank(s) == s \div Files

OnBoard(f, r) == f >= 0 /\ f < Files /\ r >= 0 /\ r < Ranks

MaxOf(S) == CHOOSE x \in S : \A y \in S : y <= x

MaxDim == IF Files > Ranks THEN Files ELSE Ranks

\* ------------------------------------------------------ rules oracle ----
Move(from, to, promo) == [from |-> from, to |-> to, promotion |-> promo]

piece_at(b, s) == b.pieces[s]

Occupied(b, s) == b.pieces[s] # NoPiece

KingSteps == {d \in (-1 .. 1) \X (-1 .. 1) : d # <<0, 0>>}
KnightSteps == {d \in (-2 .. 2) \X (-2 .. 2) :
                  d[1] * d[1] + d[2] * d[2] = 5}
RookDirs == {<<1, 0>>, <<-1, 0>>, <<0, 1>>, <<0, -1>>}
BishopDirs == {<<1, 1>>, <<1, -1>>, <<-1, 1>>, <<-1, -1>>}

Dirs(t) == CASE t = "R" -> RookDirs
             [] t = "B" -> BishopDirs
             [] OTHER -> RookDirs \cup BishopDirs

\* Squares reached from s by one step of the set D.
StepTargets(s, D) ==
    {square(square_file(s) + d[1], square_rank(s) + d[2]) :
        d \in {e \in D : OnBoard(square_file(s) + e[1], square_rank(s) + e[2])}}

PawnDir(c) == IF c = WHITE THEN 1 ELSE -1
LastRank(c) == IF c = WHITE THEN Ranks - 1 ELSE 0

PawnAttacks(s, c) ==
    StepTargets(s, {<<-1, PawnDir(c)>>, <<1, PawnDir(c)>>})

\* The targets that do not depend on the placement, tabulated by square.
KingTargets == [s \in SQUARES |-> StepTargets(s, KingSteps)]
KnightTargets == [s \in SQUARES |-> StepTargets(s, KnightSteps)]
PawnAttackTargets ==
    [c \in BOOLEAN |-> [s \in SQUARES |-> PawnAttacks(s, c)]]
PawnPushTargets ==
    [c \in BOOLEAN |-> [s \in SQUARES |-> StepTargets(s, {<<0, PawnDir(c)>>})]]

\* The squares of the line from s in direction d, nearest first.
Ray(s, d) ==
    [i \in 1 .. Cardinality({k \in 1 .. MaxDim :
                               OnBoard(square_file(s) + k * d[1],
                                       square_rank(s) + k * d[2])}) |->
        square(square_file(s) + i * d[1], square_rank(s) + i * d[2])]
Rays == [s \in SQUARES |-> [d \in RookDirs \cup BishopDirs |-> Ray(s, d)]]

\* Squares a slider on s reaches over empty squares of pieces p.
SlideTargets(p, s, D) ==
    UNION {{Rays[s][d][i] :
              i \in {j \in 1 .. Len(Rays[s][d]) :
                       \A k \in 1 .. (j - 1) : p[Rays[s][d][k]] = NoPiece}} :
           d \in D}

\* Squares attacked by the piece standing on s in the placement p.
Attacks(p, s) ==
    LET t == p[s].t IN
    CASE t = "K" -> KingTargets[s]
      [] t = "N" -> KnightTargets[s]
      [] t = "P" -> PawnAttackTargets[p[s].c][s]
      [] t \in {"R", "B", "Q"} -> SlideTargets(p, s, Dirs(t))
      [] OTHER -> {}

is_attacked_by(p, c, s) ==
    \E a \in SQUARES : p[a] # NoPiece /\ p[a].c = c /\ s \in Attacks(p, a)

\* Board.king: the highest-numbered king square of the colour, or None.
king(p, c) ==
    LET ks == {s \in SQUARES : p[s] = [t |-> "K", c |-> c]} IN
    IF ks = {} THEN NoSquare ELSE MaxOf(ks)

InCheck(p, c) ==
    LET k == king(p, c) IN k # NoSquare /\ is_attacked_by(p, ~c, k)

is_check(b) == InCheck(b.pieces, b.turn)

\* Placement after the piece on m.from moves to m.to; the arriving piece
\* takes the colour of the side to move (Board._set_piece_at(..., self.turn)).
MovePieces(p, turn, m) ==
    [s \in SQUARES |->
        IF s = m.from THEN NoPiece
        ELSE IF s = m.to
             THEN [t |-> IF m.promotion = None THEN p[m.from].t ELSE m.promotion,
                   c |-> turn]
             ELSE p[s]]

PawnPushes(p, s, c) ==
    {x \in PawnPushTargets[c][s] : p[x] = NoPiece}

PawnCaptures(p, s, c) ==
    {x \in PawnAttackTargets[c][s] : p[x] # NoPiece /\ p[x].c # c}

PseudoLegalFrom(p, c, s) ==
    IF p[s].t = "P"
    THEN {Move(s, x, pr) :
            <<x, pr>> \in {y \in (PawnPushes(p, s, c) \cup PawnCaptures(p, s, c))
                                  \X (PromotionPieces \cup {None}) :
                             (y[2] # None) <=> (square_rank(y[1]) = LastRank(c))}}
    ELSE {Move(s, x, None) :
            x \in {y \in Attacks(p, s) : p[y] = NoPiece \/ p[y].c # c}}

pseudo_legal_moves(b) ==
    UNION {PseudoLegalFrom(b.pieces, b.turn, s) :
             s \in {x \in SQUARES : b.pieces[x] # NoPiece
                                    /\ b.pieces[x].c = b.turn}}

is_into_check(b, m) == InCheck(MovePieces(b.pieces, b.turn, m), b.turn)

generate_legal_moves(b) ==
    {m \in pseudo_legal_moves(b) : ~is_into_check(b, m)}

OfType(p, T) == {s \in SQUARES : p[s] # NoPiece /\ p[s].t \in T}
OfColor(p, c) == {s \in SQUARES : p[s] # NoPiece /\ p[s].c = c}
IsLight(s) == (square_file(s) + square_rank(s)) % 2 = 1

has_insufficient_material(p, c) ==
    IF OfColor(p, c) \cap OfType(p, {"P", "R", "Q"}) # {} THEN FALSE
    ELSE IF OfColor(p, c) \cap OfType(p, {"N"}) # {}
    THEN /\ Cardinality(OfColor(p, c)) <= 2
         /\ OfColor(p, ~c) \cap OfType(p, {"P", "N", "B", "R"}) = {}
    ELSE IF OfColor(p, c) \cap OfType(p, {"B"}) # {}
    THEN /\ \/ \A s \in OfType(p, {"B"}) : IsLight(s)
            \/ \A s \in OfType(p, {"B"}) : ~IsLight(s)
         /\ OfType(p, {"P", "N"}) = {}
    ELSE TRUE

is_insufficient_material(b) ==
    has_insufficient_material(b.pieces, WHITE)
        /\ has_insufficient_material(b.pieces, BLACK)

\* A board value: placement, side to move, the stack of earlier positions,
\* and the legal moves and the outcome of the position (functions of the
\* first two, computed once when the position arises).
Board(pieces, turn, stack) ==
    LET lm == generate_legal_moves([pieces |-> pieces, turn |-> turn]) IN
    [pieces |-> pieces, turn |-> turn, stack |-> stack,
     legal |-> lm,
     over |-> lm = {} \/ is_insufficient_material([pieces |-> pieces])]

legal_moves(b) == b.legal

is_game_over(b) == b.over

is_capture(b, m) ==
    \/ (b.pieces[m.to] # NoPiece /\ b.pieces[m.to].c # b.turn)
    \/ (b.pieces[m.from] # NoPiece /\ b.pieces[m.from].c # b.turn)

\* Board.push on a move whose origin square holds a piece.
push(b, m) ==
    Board(MovePieces(b.pieces, b.turn, m), ~b.turn,
          Append(b.stack, [pieces |-> b.pieces, turn |-> b.turn]))

\* Board.push on a move whose origin square is empty: the position is
\* stacked, then the assertion on the moved piece fails.
push_failed(b) ==
    [b EXCEPT !.stack = Append(b.stack, [pieces |-> b.pieces, turn |-> b.turn])]

\* Board.pop on a non-empty stack.
pop(b) ==
    Board(b.stack[Len(b.stack)].pieces, b.stack[Len(b.stack)].turn,
          SubSeq(b.stack, 1, Len(b.stack) - 1))

\* The starting positions, white to move.  The standard array of the full
\* game does not fit the small board; the model starts from either of two
\* small positions, and Board.reset() returns to the one the run started
\* from.  In the first the white pawn is one step from promotion and can
\* take a pawn; in the second a bare white king faces king and rook.
StartPieces(n) ==
    [s \in SQUARES |->
        IF n = 1
        THEN CASE s = square(0, 0) -> [t |-> "K", c |-> WHITE]
               [] s = square(Files - 1, Ranks - 2) -> [t |-> "P", c |-> WHITE]
               [] s = square(0, Ranks - 1) -> [t |-> "K", c |-> BLACK]
               [] s = square(Files - 2, Ranks - 1) -> [t |-> "P", c |-> BLACK]
               [] OTHER -> NoPiece
        ELSE CASE s = square(1, 0) -> [t |-> "K", c |-> WHITE]
               [] s = square(0, Ranks - 1) -> [t |-> "K", c |-> BLACK]
               [] s = square(Files - 1, 1) -> [t |-> "R", c |-> BLACK]
               [] OTHER -> NoPiece]

StartPositions == {1, 2}

\* chess.Board() and Board.reset(): the starting position, empty stack.
StartBoards == [n \in StartPositions |-> Board(StartPieces(n), WHITE, <<>>)]
StartBoard(n) == StartBoards[n]

\* ------------------------------------------------------------- state ----
VARIABLES
    variant,          \* "ai": chess_gui.py, "sound": chess_gui_sound.py
    start,            \* the starting position of the run
    board,            \* self.board
    selected_square,  \* self.selected_square (NoSquare for None)
    cached_moves,     \* self.legal_moves, the cached destinations
    ai_is_thinking,   \* self.ai_is_thinking
    game_over,        \* the local game_over of run() in chess_gui_sound.py
    main,             \* "running", or "crashed" after an uncaught exception
    th,               \* the threads started on make_ai_move
    played,           \* the sound the last step signaled, with what it is for
    applied,          \* the move the last step applied to the board
    ended,            \* how the thread that ended in the last step ended
    shown,            \* what the frame drawn in the last step showed
    steps,            \* steps taken so far, of the main loop and the threads
    last_mover,       \* who applied the last move since the last reset
    event             \* what the event handled in the last step was

vars == <<variant, start, board, selected_square, cached_moves, ai_is_thinking,
          game_over, main, th, played, applied, ended, shown,
          steps, last_mover, event>>

Threads == 1 .. MaxThreads

NoMove == Move(NoSquare, NoSquare, None)
NoSound == [snd |-> "none", by |-> "none", chk |-> FALSE, cap |-> FALSE]
NoApplied == [by |-> "none", move |-> NoMove, pawn |-> FALSE, color |-> WHITE,
              over |-> FALSE, pending |-> FALSE]

Inf == [inf |-> TRUE, v |-> 0]
Fin(v) == [inf |-> FALSE, v |-> v]

IdleThread ==
    [pc |-> "idle", legal |-> {}, moves |-> {}, white |-> FALSE,
     best_move |-> NoMove, best_eval |-> Inf, move |-> NoMove,
     evaluation |-> 0, is_capture |-> FALSE,
     call_board |-> StartBoard(1), chk |-> FALSE, cap |-> FALSE,
     pushes |-> 0, sounds |-> 0]

NoEnd == [how |-> "none", pushes |-> 0, sounds |-> 0, over |-> FALSE,
          nomoves |-> FALSE]

\* The thread t returns ("done") or dies of an exception ("crashed").
Ends(t, how) ==
    /\ th' = [th EXCEPT ![t] = IdleThread]
    /\ ended' = [how |-> how, pushes |-> th[t].pushes,
                 sounds |-> th[t].sounds, over |-> is_game_over(board'),
                 nomoves |-> th[t].legal = {}]

Live(t) == th[t].pc # "idle"

\* Every step counts against the budget of MaxSteps.
Step == steps < MaxSteps /\ steps' = steps + 1

\* ------------------------------------------------------- evaluation ----
RECURSIVE ScoreFrom(_, _)
ScoreFrom(p, s) ==
    IF s > Files * Ranks - 1 THEN 0
    ELSE (IF p[s] = NoPiece THEN 0
          ELSE IF p[s].c = WHITE THEN PIECE_VALUES[p[s].t]
          ELSE 0 - PIECE_VALUES[p[s].t]) + ScoreFrom(p, s + 1)

\* A slip in the sign: the black pieces left out of the sum.
evaluate_boardWhiteOnly(b) ==
    ScoreFrom([s \in SQUARES |-> IF b.pieces[s].c = WHITE THEN b.pieces[s]
                                 ELSE NoPiece], 0)

evaluate_board(b) == ScoreFrom(b.pieces, 0)

\* ----------------------------------------------------- sound feedback ---
\* if is_check: check / elif is_capture: capture / else: move
Classify(chk, cap) == IF chk THEN "check" ELSE IF cap THEN "capture" ELSE "move"

\* if move: None is falsy, and so is the null move (chess.Move.__bool__).
Truthy(m) == m # NoMove /\ (m.from # 0 \/ m.to # 0 \/ m.promotion # None)

\* ---------------------------------------------------------- geometry ---
Variants == {"ai", "sound"}

\* The geometry of the board in the window of each program.
Geometry ==
    [v \in Variants |->
        IF v = "ai"
        THEN [size |-> AI_BOARD_WIDTH \div 8,
              x |-> (WIDTH - AI_BOARD_WIDTH) \div 2,
              y |-> (HEIGHT - AI_BOARD_HEIGHT) \div 2]
        ELSE [size |-> SND_BOARD_WIDTH \div 8,
              x |-> (WIDTH - SND_BOARD_WIDTH) \div 2,
              y |-> (HEIGHT - SND_BOARD_HEIGHT) \div 2]]

SQUARE_SIZE == Geometry[variant].size
board_pos_x == Geometry[variant].x
board_pos_y == Geometry[variant].y

\* Mouse positions: the corner pixel of every square, and one pixel off
\* each side of the board.
PositionsOf ==
    [v \in Variants |->
        {<<Geometry[v].x + c * Geometry[v].size,
           Geometry[v].y + r * Geometry[v].size>> :
            <<c, r>> \in (0 .. Files - 1) \X (0 .. Ranks - 1)}
        \cup {<<Geometry[v].x - 1, Geometry[v].y>>,
              <<Geometry[v].x, Geometry[v].y - 1>>,
              <<Geometry[v].x + Files * Geometry[v].size, Geometry[v].y>>,
              <<Geometry[v].x, Geometry[v].y + Ranks * Geometry[v].size>>}]

ClickPositions == PositionsOf[variant]

ClickCol(pos) == (pos[1] - board_pos_x) \div SQUARE_SIZE
ClickRow(pos) == (pos[2] - board_pos_y) \div SQUARE_SIZE
InBounds(pos) == OnBoard(ClickCol(pos), ClickRow(pos))
ClickSquare(pos) == square(ClickCol(pos), (Ranks - 1) - ClickRow(pos))

\* ------------------------------------------------------- handle_click ---
SelectAt(sq) ==
    /\ selected_square' = sq
    /\ cached_moves' = {m \in legal_moves(board) : m.from = sq}

Deselect ==
    /\ selected_square' = NoSquare
    /\ cached_moves' = {}

OwnPieceAt(sq) == piece_at(board, sq) # NoPiece
                    /\ piece_at(board, sq).c = board.turn

\* A slip in the promotion piece: a rook instead of a queen.
CandidateRook(sq) ==
    Move(selected_square, sq,
         IF piece_at(board, selected_square).t = "P"
              /\ square_rank(sq) \in {0, Ranks - 1}
         THEN "R" ELSE None)

\* chess_gui.py: chess.Move(selected, clicked), promoted to a queen when
\* the selected piece is a pawn and the clicked rank is the first or last.
CandidateAI(sq) ==
    Move(selected_square, sq,
         IF piece_at(board, selected_square).t = "P"
              /\ square_rank(sq) \in {0, Ranks - 1}
         THEN "Q" ELSE None)

\* chess_gui_sound.py: the promotion rank depends on the side to move.
CandidateSound(sq) ==
    Move(selected_square, sq,
         IF piece_at(board, selected_square).t = "P"
              /\ \/ (square_rank(sq) = Ranks - 1 /\ board.turn = WHITE)
                 \/ (square_rank(sq) = 0 /\ board.turn = BLACK)
         THEN "Q" ELSE None)

AppliedBy(who, m) ==
    [by |-> who, move |-> m,
     pawn |-> piece_at(board, m.from).t = "P",
     color |-> board.turn,
     over |-> is_game_over(board),
     pending |-> \E t \in Threads : Live(t)]

\* The sound of the move m just pushed: board' is the board after the push.
SoundOfPush(who, m) ==
    [snd |-> Classify(is_check(board'), is_capture(board, m)),
     by |-> who,
     chk |-> is_check(board'),
     cap |-> is_capture(board, m)]

\* The first thread that is not running.
FreeThread == CHOOSE t \in Threads :
                 ~Live(t) /\ \A u \in Threads : u < t => Live(u)

\* threading.Thread(target=self.make_ai_move).start()
StartThread ==
    /\ \E t \in Threads : ~Live(t)
    /\ th' = [th EXCEPT ![FreeThread] = [IdleThread EXCEPT !.pc = "start"]]

Gate == board.turn = AI_PLAYER \/ is_game_over(board) \/ ai_is_thinking

handle_click_ai(pos) ==
    /\ UNCHANGED <<variant, start, ai_is_thinking, game_over>>
    /\ ended' = NoEnd
    /\ IF Gate
       THEN /\ UNCHANGED <<board, selected_square, cached_moves, th, main>>
            /\ played' = NoSound /\ applied' = NoApplied
       ELSE IF ~InBounds(pos)
       THEN /\ Deselect
            /\ UNCHANGED <<board, th, main>>
            /\ played' = NoSound /\ applied' = NoApplied
       ELSE IF selected_square # NoSquare
       THEN IF piece_at(board, selected_square) = NoPiece
            THEN \* None.piece_type: AttributeError in the main loop
                 /\ main' = "crashed"
                 /\ UNCHANGED <<board, selected_square, cached_moves, th>>
                 /\ played' = NoSound /\ applied' = NoApplied
            ELSE IF CandidateAI(ClickSquare(pos)) \in legal_moves(board)
            THEN /\ Len(board.stack) + 2 <= MaxPlies
                 /\ board' = push(board, CandidateAI(ClickSquare(pos)))
                 /\ played' = SoundOfPush("human", CandidateAI(ClickSquare(pos)))
                 /\ applied' = AppliedBy("human", CandidateAI(ClickSquare(pos)))
                 /\ Deselect
                 /\ IF ~is_game_over(board')
                    THEN StartThread
                    ELSE UNCHANGED th
                 /\ UNCHANGED main
            ELSE IF OwnPieceAt(ClickSquare(pos))
            THEN /\ SelectAt(ClickSquare(pos))
                 /\ UNCHANGED <<board, th, main>>
                 /\ played' = NoSound /\ applied' = NoApplied
            ELSE /\ Deselect
                 /\ UNCHANGED <<board, th, main>>
                 /\ played' = NoSound /\ applied' = NoApplied
       ELSE /\ IF OwnPieceAt(ClickSquare(pos))
               THEN SelectAt(ClickSquare(pos))
               ELSE UNCHANGED <<selected_square, cached_moves>>
            /\ UNCHANGED <<board, th, main>>
            /\ played' = NoSound /\ applied' = NoApplied

handle_click_sound(pos) ==
    /\ UNCHANGED <<variant, start, ai_is_thinking, game_over, th>>
    /\ ended' = NoEnd
    /\ IF ~InBounds(pos)
       THEN /\ Deselect
            /\ UNCHANGED <<board, main>>
            /\ played' = NoSound /\ applied' = NoApplied
       ELSE IF selected_square # NoSquare
       THEN IF piece_at(board, selected_square) = NoPiece
            THEN /\ main' = "crashed"
                 /\ UNCHANGED <<board, selected_square, cached_moves>>
                 /\ played' = NoSound /\ applied' = NoApplied
            ELSE IF CandidateSound(ClickSquare(pos)) \in legal_moves(board)
            THEN /\ Len(board.stack) + 1 <= MaxPlies
                 /\ board' = push(board, CandidateSound(ClickSquare(pos)))
                 /\ played' = SoundOfPush("human", CandidateSound(ClickSquare(pos)))
                 /\ applied' = AppliedBy("human", CandidateSound(ClickSquare(pos)))
                 /\ Deselect
                 /\ UNCHANGED main
            ELSE IF OwnPieceAt(ClickSquare(pos))
            THEN /\ SelectAt(ClickSquare(pos))
                 /\ UNCHANGED <<board, main>>
                 /\ played' = NoSound /\ applied' = NoApplied
            ELSE /\ Deselect
                 /\ UNCHANGED <<board, main>>
                 /\ played' = NoSound /\ applied' = NoApplied
       ELSE /\ IF OwnPieceAt(ClickSquare(pos))
               THEN SelectAt(ClickSquare(pos))
               ELSE UNCHANGED <<selected_square, cached_moves>>
            /\ UNCHANGED <<board, main>>
            /\ played' = NoSound /\ applied' = NoApplied

\* ------------------------------------------------- the event handled ---
\* A click is handled when the program lets it through to the selection
\* logic of handle_click.
Handled == IF variant = "ai" THEN ~Gate ELSE ~game_over

LegalDestination(sq) ==
    \E mv \in legal_moves(board) : mv.from = selected_square /\ mv.to = sq

\* A handled click is invalid when it is outside the board, or when a
\* square is selected and the clicked square is neither a legal
\* destination nor a piece of the side to move.
InvalidClick(pos) ==
    IF ~InBounds(pos) THEN "outside"
    ELSE IF /\ selected_square # NoSquare
            /\ ~LegalDestination(ClickSquare(pos))
            /\ ~OwnPieceAt(ClickSquare(pos))
    THEN "square"
    ELSE "no"

\* The square a handled click re-selects: another piece of the side to
\* move, clicked while a square is selected.
Reselects(pos) ==
    IF /\ InBounds(pos) /\ selected_square # NoSquare
       /\ ~LegalDestination(ClickSquare(pos))
       /\ OwnPieceAt(ClickSquare(pos))
    THEN ClickSquare(pos) ELSE NoSquare

NoEvent == [handled |-> FALSE, invalid |-> "no", reselects |-> NoSquare,
            reset |-> FALSE]

ClickEvent(pos) ==
    IF Handled
    THEN [handled |-> TRUE, invalid |-> InvalidClick(pos),
          reselects |-> Reselects(pos), reset |-> FALSE]
    ELSE NoEvent

KeyEvent(key) ==
    [NoEvent EXCEPT !.reset = key = "r" /\ (IF variant = "ai"
                                              THEN is_game_over(board)
                                              ELSE game_over)]

\* ------------------------------------------------------ the main loop ---
\* MOUSEBUTTONDOWN
MouseDown(pos) ==
    /\ main = "running"
    /\ Step
    /\ event' = ClickEvent(pos)
    /\ shown' = "none"
    /\ IF variant = "ai"
       THEN handle_click_ai(pos)
       ELSE IF ~game_over
            THEN handle_click_sound(pos)
            ELSE /\ UNCHANGED <<variant, start, board, selected_square, cached_moves,
                                ai_is_thinking, game_over, main, th>>
                 /\ played' = NoSound /\ applied' = NoApplied
                 /\ ended' = NoEnd
    /\ last_mover' = IF applied'.by = "none" THEN last_mover ELSE applied'.by

\* KEYDOWN: only the R key, and only once the game is over, does anything.
KeyDown(key) ==
    /\ main = "running"
    /\ Step
    /\ event' = KeyEvent(key)
    /\ last_mover' = IF event'.reset THEN "none" ELSE last_mover
    /\ shown' = "none"
    /\ played' = NoSound /\ applied' = NoApplied
    /\ UNCHANGED <<variant, start, main, th>>
    /\ ended' = NoEnd
    /\ IF variant = "ai"
       THEN IF key = "r" /\ is_game_over(board)
            THEN /\ board' = StartBoard(start)
                 /\ selected_square' = NoSquare
                 /\ cached_moves' = {}
                 /\ ai_is_thinking' = FALSE
                 /\ UNCHANGED game_over
            ELSE UNCHANGED <<board, selected_square, cached_moves,
                             ai_is_thinking, game_over>>
       ELSE IF key = "r" /\ game_over
            THEN /\ board' = StartBoard(start)
                 /\ selected_square' = NoSquare
                 /\ cached_moves' = {}
                 /\ game_over' = FALSE
                 /\ UNCHANGED ai_is_thinking
            ELSE UNCHANGED <<board, selected_square, cached_moves,
                             ai_is_thinking, game_over>>

\* What a frame drawn now shows: a look-ahead position, a move applied but
\* not yet classified, or a position whose moves are all classified.
FrameView ==
    IF \E t \in Threads : th[t].pc \in {"eval", "pop"} THEN "lookahead"
    ELSE IF \E t \in Threads : th[t].pc = "sound" THEN "unclassified"
    ELSE "settled"

\* The drawing at the end of an iteration of the loop; chess_gui_sound.py
\* latches game_over here.
Frame ==
    /\ main = "running"
    /\ Step
    /\ event' = NoEvent
    /\ UNCHANGED last_mover
    /\ shown' = FrameView
    /\ played' = NoSound /\ applied' = NoApplied /\ ended' = NoEnd
    /\ game_over' = IF variant = "sound" /\ is_game_over(board)
                    THEN TRUE ELSE game_over
    /\ UNCHANGED <<variant, start, board, selected_square, cached_moves,
                   ai_is_thinking, main, th>>

\* ------------------------------------------------------- make_ai_move ---
Quiet == played' = NoSound /\ applied' = NoApplied

\* self.ai_is_thinking = True (the sleep that follows changes nothing)
ThreadStart(t) ==
    /\ th[t].pc = "start"
    /\ ai_is_thinking' = TRUE
    /\ th' = [th EXCEPT ![t].pc = "list"]
    /\ Quiet /\ ended' = NoEnd
    /\ UNCHANGED <<variant, start, board, selected_square, cached_moves, game_over,
                   main>>

\* A slip in the listing: the pseudo-legal moves instead of the legal ones.
ThreadListPseudo(t) ==
    /\ th[t].pc = "list"
    /\ th' = [th EXCEPT ![t].pc = "loop",
                        ![t].legal = pseudo_legal_moves(board),
                        ![t].moves = pseudo_legal_moves(board),
                        ![t].white = (board.turn = WHITE),
                        ![t].best_move = NoMove,
                        ![t].best_eval = Inf,
                        ![t].call_board = board]
    /\ Quiet /\ ended' = NoEnd
    /\ UNCHANGED <<variant, start, board, selected_square, cached_moves,
                   ai_is_thinking, game_over, main>>

\* find_best_move up to its loop: the legal moves are listed (the shuffle
\* is the order in which ThreadLoop draws them) and the branch is chosen.
ThreadList(t) ==
    /\ th[t].pc = "list"
    /\ th' = [th EXCEPT ![t].pc = "loop",
                        ![t].legal = legal_moves(board),
                        ![t].moves = legal_moves(board),
                        ![t].white = (board.turn = WHITE),
                        ![t].best_move = NoMove,
                        ![t].best_eval = Inf,
                        ![t].call_board = board]
    /\ Quiet /\ ended' = NoEnd
    /\ UNCHANGED <<variant, start, board, selected_square, cached_moves,
                   ai_is_thinking, game_over, main>>

\* A slip in the fallback: None returned when there is nothing to choose.
ReturnValuesOrNone(best, legal) ==
    IF best # NoMove THEN {best} ELSE IF legal = {} THEN {NoMove} ELSE legal

\* return best_move if best_move is not None else random.choice(legal_moves)
ReturnValues(best, legal) == IF best # NoMove THEN {best} ELSE legal

\* evaluation > max_eval for white, evaluation < min_eval for black
Better(white, evaluation, best) ==
    best.inf \/ (IF white THEN evaluation > best.v ELSE evaluation < best.v)

\* The head of the loop: the next move of the shuffled list is pushed, or
\* the list is exhausted and find_best_move returns.
ThreadLoop(t) ==
    /\ th[t].pc = "loop"
    /\ Quiet
    /\ UNCHANGED <<variant, start, selected_square, cached_moves, ai_is_thinking,
                   game_over, main>>
    /\ IF th[t].moves # {}
       THEN \E m \in th[t].moves :
              IF piece_at(board, m.from) = NoPiece
              THEN /\ board' = push_failed(board)
                   /\ Ends(t, "crashed")
              ELSE /\ board' = push(board, m)
                   /\ th' = [th EXCEPT ![t].pc = "eval",
                                       ![t].moves = th[t].moves \ {m},
                                       ![t].move = m]
                   /\ ended' = NoEnd
       ELSE /\ UNCHANGED board
            /\ IF ReturnValues(th[t].best_move, th[t].legal) = {}
               THEN \* random.choice of an empty list: IndexError
                    Ends(t, "crashed")
               ELSE \E m \in ReturnValues(th[t].best_move, th[t].legal) :
                      /\ th' = [th EXCEPT ![t].pc = IF Truthy(m) THEN "cap"
                                                    ELSE "clear",
                                          ![t].move = m]
                      /\ ended' = NoEnd

\* evaluation = self.evaluate_board()
ThreadEval(t) ==
    /\ th[t].pc = "eval"
    /\ th' = [th EXCEPT ![t].pc = "pop",
                        ![t].evaluation = evaluate_board(board)]
    /\ Quiet /\ ended' = NoEnd
    /\ UNCHANGED <<variant, start, board, selected_square, cached_moves,
                   ai_is_thinking, game_over, main>>

\* self.board.pop() and the comparison with the best evaluation so far
ThreadPop(t) ==
    /\ th[t].pc = "pop"
    /\ Quiet
    /\ UNCHANGED <<variant, start, selected_square, cached_moves, ai_is_thinking,
                   game_over, main>>
    /\ IF board.stack = <<>>
       THEN \* pop from an empty move stack: IndexError
            /\ UNCHANGED board
            /\ Ends(t, "crashed")
       ELSE /\ board' = pop(board)
            /\ ended' = NoEnd
            /\ IF Better(th[t].white, th[t].evaluation, th[t].best_eval)
               THEN th' = [th EXCEPT ![t].pc = "loop",
                                     ![t].best_eval = Fin(th[t].evaluation),
                                     ![t].best_move = th[t].move]
               ELSE th' = [th EXCEPT ![t].pc = "loop"]

\* is_capture = self.board.is_capture(move)
ThreadCap(t) ==
    /\ th[t].pc = "cap"
    /\ th' = [th EXCEPT ![t].pc = "push",
                        ![t].is_capture = is_capture(board, th[t].move)]
    /\ Quiet /\ ended' = NoEnd
    /\ UNCHANGED <<variant, start, board, selected_square, cached_moves,
                   ai_is_thinking, game_over, main>>

\* self.board.push(move)
ThreadPush(t) ==
    /\ th[t].pc = "push"
    /\ played' = NoSound
    /\ UNCHANGED <<variant, start, selected_square, cached_moves, ai_is_thinking,
                   game_over, main>>
    /\ IF piece_at(board, th[t].move.from) = NoPiece
       THEN /\ board' = push_failed(board)
            /\ Ends(t, "crashed")
            /\ applied' = NoApplied
       ELSE /\ board' = push(board, th[t].move)
            /\ applied' = AppliedBy("ai", th[t].move)
            /\ ended' = NoEnd
            /\ th' = [th EXCEPT ![t].pc = "sound",
                                ![t].pushes = th[t].pushes + 1,
                                ![t].chk = is_check(board'),
                                ![t].cap = is_capture(board, th[t].move)]

\* if self.board.is_check(): check / elif is_capture: capture / else: move
ThreadSound(t) ==
    /\ th[t].pc = "sound"
    /\ played' = [snd |-> Classify(is_check(board), th[t].is_capture),
                  by |-> "ai", chk |-> th[t].chk, cap |-> th[t].cap]
    /\ applied' = NoApplied /\ ended' = NoEnd
    /\ th' = [th EXCEPT ![t].pc = "clear", ![t].sounds = th[t].sounds + 1]
    /\ UNCHANGED <<variant, start, board, selected_square, cached_moves,
                   ai_is_thinking, game_over, main>>

\* self.ai_is_thinking = False, and the thread returns
ThreadClear(t) ==
    /\ th[t].pc = "clear"
    /\ ai_is_thinking' = FALSE
    /\ Quiet
    /\ UNCHANGED <<variant, start, board, selected_square, cached_moves, game_over,
                   main>>
    /\ Ends(t, "done")

make_ai_move(t) ==
    /\ shown' = "none"
    /\ Step
    /\ event' = NoEvent
    /\ \/ ThreadStart(t)
       \/ ThreadList(t)
       \/ ThreadLoop(t)
       \/ ThreadEval(t)
       \/ ThreadPop(t)
       \/ ThreadCap(t)
       \/ ThreadPush(t)
       \/ ThreadSound(t)
       \/ ThreadClear(t)
    /\ last_mover' = IF applied'.by = "none" THEN last_mover ELSE applied'.by

\* ------------------------------------------------------ specification ---
Keys == {"r", "other"}

Init ==
    /\ variant \in Variants
    /\ start \in StartPositions
    /\ board = StartBoard(start)
    /\ selected_square = NoSquare
    /\ cached_moves = {}
    /\ ai_is_thinking = FALSE
    /\ game_over = FALSE
    /\ main = "running"
    /\ th = [t \in Threads |-> IdleThread]
    /\ played = NoSound
    /\ applied = NoApplied
    /\ ended = NoEnd
    /\ shown = "none"
    /\ steps = 0
    /\ last_mover = "none"
    /\ event = NoEvent

Next ==
    \/ \E pos \in ClickPositions : MouseDown(pos)
    \/ \E key \in Keys : KeyDown(key)
    \/ Frame
    \/ \E t \in Threads : make_ai_move(t)

Spec == Init /\ [][Next]_vars

\* The interpreter schedules every started thread until it ends.
FairSpec == Spec /\ \A t \in Threads : WF_vars(make_ai_move(t))

\* ------------------------------------------- the evaluator on its own ---
\* evaluate_board applied to any placement of at most MaxPieces pieces,
\* with either side to move and with or without a move on the stack.
Pieces == {[t |-> t, c |-> c] : t \in PieceTypes, c \in {WHITE, BLACK}}

EmptyPlacement == [s \in SQUARES |-> NoPiece]

RECURSIVE Placements(_)
Placements(n) ==
    IF n = 0 THEN {EmptyPlacement}
    ELSE {[p EXCEPT ![s] = x] :
            <<p, s, x>> \in Placements(n - 1) \X SQUARES \X (Pieces \cup {NoPiece})}

Histories == {<<>>, <<[pieces |-> EmptyPlacement, turn |-> WHITE]>>}

EvalInit ==
    /\ variant = "ai"
    /\ start = 1
    /\ \E p \in Placements(MaxPieces), c \in {WHITE, BLACK}, h \in Histories :
          board = Board(p, c, h)
    /\ selected_square = NoSquare
    /\ cached_moves = {}
    /\ ai_is_thinking = TRUE
    /\ game_over = FALSE
    /\ main = "running"
    /\ th = [t \in Threads |-> IF t = 1 THEN [IdleThread EXCEPT !.pc = "eval"]
                                ELSE IdleThread]
    /\ played = NoSound
    /\ applied = NoApplied
    /\ ended = NoEnd
    /\ shown = "none"
    /\ steps = 0
    /\ last_mover = "none"
    /\ event = NoEvent

EvalNext ==
    \E t \in Threads :
        /\ ThreadEval(t) /\ shown' = "none" /\ event' = NoEvent /\ Step
        /\ UNCHANGED last_mover

EvalSpec == EvalInit /\ [][EvalNext]_vars

\* ------------------------------------------------- states of the spec ---
TaskInFlight == \E t \in Threads : Live(t)

\* AutomatedTurnPending: the automated player is to move or its task runs.
AutomatedTurnPending ==
    variant = "ai" /\ (board.turn = AI_PLAYER \/ TaskInFlight)

\* GameOver: a terminal outcome is on the board and no task is running.
GameOver == is_game_over(board) /\ ~TaskInFlight

\* Idle: the human is to move, nothing is selected, nothing is pending.
Idle ==
    /\ ~is_game_over(board) /\ ~TaskInFlight /\ ~ai_is_thinking
    /\ selected_square = NoSquare /\ cached_moves = {}
    /\ (variant = "ai" => board.turn # AI_PLAYER)
    /\ ~game_over

ClickStep == \E pos \in ClickPositions : MouseDown(pos)

\* --------------------------------------------------------------- claims ---

\* C1: the move find_best_move returns on a board with at least one legal
\* move is one of the legal moves of the board it was called on, whatever
\* the order in which the shuffled list was walked.
C1_ReturnedMoveIsLegal ==
    \A t \in Threads :
        (th[t].pc \in {"cap", "push", "sound"}
            /\ legal_moves(th[t].call_board) # {})
        => th[t].move \in legal_moves(th[t].call_board)

\* A task has returned from find_best_move on a board with several legal
\* moves, some pseudo-legal move of which is not legal.
C1_Witness ==
    \E t \in Threads :
        /\ th[t].pc = "cap"
        /\ Cardinality(legal_moves(th[t].call_board)) > 1
        /\ pseudo_legal_moves(th[t].call_board) # legal_moves(th[t].call_board)
        /\ th[t].move \in legal_moves(th[t].call_board)

C3_ClicksRefusedWhileTaskInFlight ==
    [][(ClickStep /\ variant = "ai" /\ TaskInFlight)
         => UNCHANGED <<board, selected_square, cached_moves, th>>]_vars

C5_FramesSeeSettledBoard == shown \in {"none", "settled"}

\* C6: a dispatched task never ends otherwise than by returning after it
\* applied exactly one move and signaled it, with the thinking flag clear
\* and the board either terminal or handed back to the human.
C6_TaskAppliesOneMove ==
    ended.how # "none"
    => /\ ended.how = "done"
       /\ ended.pushes = 1
       /\ ~ai_is_thinking
       /\ (is_game_over(board) \/ board.turn # AI_PLAYER)

\* C7: in every reachable state the cached legal-move list is exactly the
\* set of legal moves of the current board that start on the selected
\* square, and is empty when no square is selected.
C7_CacheIsFresh ==
    cached_moves = IF selected_square = NoSquare THEN {}
                   ELSE {m \in legal_moves(board) : m.from = selected_square}

ExpectedSound(chk, cap) ==
    CASE chk -> "check" [] ~chk /\ cap -> "capture" [] OTHER -> "move"

\* C8: every applied move, human or automated, signals exactly one sound:
\* check if the side to move is in check after the move, else capture if
\* the move was a capture on the board it was applied to, else move.
C8_OneSoundPerMove ==
    /\ played.by # "none" => played.snd = ExpectedSound(played.chk, played.cap)
    /\ applied.by = "human" => played.by = "human"
    /\ ended.how = "done" => ended.sounds = ended.pushes

\* C9: the R key acts only in GameOver: pressed otherwise it changes
\* nothing, pressed in GameOver it restores the starting position, clears
\* the selection and the cache and leaves the machine in Idle.
C9_ResetOnlyInGameOver ==
    [][KeyDown("r")
         => IF GameOver
            THEN board' = StartBoard(start) /\ Idle'
            ELSE UNCHANGED <<board, selected_square, cached_moves,
                             ai_is_thinking, game_over>>]_vars

\* C10: a click that moves a pawn to the last rank of its colour applies
\* the move with promotion to a queen, and a click never applies a move
\* with another promotion piece, nor a promotion of anything but a pawn
\* arriving on its last rank.
C10_ClickPromotesToQueen ==
    applied.by = "human"
    => /\ applied.move.promotion \in {None, "Q"}
       /\ (applied.move.promotion = "Q")
            <=> (applied.pawn
                   /\ square_rank(applied.move.to) = LastRank(applied.color))

\* A click has moved a pawn to its last rank.
C10_Witness ==
    /\ applied.by = "human"
    /\ applied.pawn
    /\ square_rank(applied.move.to) = LastRank(applied.color)
    /\ applied.move.promotion = "Q"

\* The material of a placement, counted piece type by piece type.
Count(p, t, c) == Cardinality(OfType(p, {t}) \cap OfColor(p, c))
Net(p, t) == Count(p, t, WHITE) - Count(p, t, BLACK)
Material(p) ==
    1 * Net(p, "P") + 3 * Net(p, "N") + 3 * Net(p, "B")
        + 5 * Net(p, "R") + 9 * Net(p, "Q") + 0 * Net(p, "K")

\* C11: evaluate_board returns the material of the placement, pawn 1,
\* knight 3, bishop 3, rook 5, queen 9, king 0, white counted positive and
\* black negative, whatever the side to move and the move history.
C11_EvaluationIsMaterial ==
    \A t \in Threads :
        th[t].pc = "pop" => th[t].evaluation = Material(board.pieces)

C11_Witness ==
    /\ th[1].pc = "pop"
    /\ board.turn = BLACK /\ board.stack # <<>>
    /\ Count(board.pieces, "K", WHITE) = 1
    /\ Count(board.pieces, "Q", BLACK) = 1
    /\ th[1].evaluation = 0 - 9

\* The colour-reversed mirror of a placement: ranks flipped, colours swapped.
Mirror(p) ==
    [s \in SQUARES |->
        LET q == p[square(square_file(s), (Ranks - 1) - square_rank(s))] IN
        IF q = NoPiece THEN NoPiece ELSE [t |-> q.t, c |-> ~q.c]]

\* C12: the evaluation of a placement and the evaluation of its
\* colour-reversed mirror are negations of each other.
C12_EvaluationIsAntisymmetric ==
    \A t \in Threads :
        th[t].pc = "pop" =>
            th[t].evaluation = 0 - evaluate_board([pieces |-> Mirror(board.pieces)])

C12_Witness ==
    /\ th[1].pc = "pop"
    /\ th[1].evaluation > 0
    /\ OfColor(board.pieces, BLACK) # {}
    /\ Mirror(board.pieces) # board.pieces
    /\ evaluate_board([pieces |-> Mirror(board.pieces)]) < 0

\* C13: find_best_move is never called on a board without legal moves:
\* every thread that has listed the legal moves has listed at least one.
C13_SelectorCalledWithMoves ==
    \A t \in Threads :
        th[t].pc \notin {"idle", "start", "list"} => th[t].legal # {}

\* C14: find_best_move called on a board without legal moves raises an
\* error: it returns no move, not even None, and the thread ends there
\* having applied no move and signaled no sound.
C14_NoMovesIsAnError ==
    /\ \A t \in Threads :
          (th[t].pc \notin {"idle", "start", "list"} /\ th[t].legal = {})
              => th[t].pc = "loop"
    /\ ended.nomoves =>
          /\ ended.how = "crashed"
          /\ ended.pushes = 0 /\ ended.sounds = 0
          /\ applied.by = "none" /\ played.snd = "none"

C14_Witness ==
    /\ ended.nomoves /\ ended.how = "crashed"
    /\ legal_moves(board) = {}

\* The evaluation of the position a move leads to from a board.
Score(b, m) == ScoreFrom(MovePieces(b.pieces, b.turn, m), 0)

\* When the loop of find_best_move is through, the move it has kept is
\* not the fallback and no legal move of the board it was called on (the
\* moves it listed) leads to a position better for the side to move.
GreedyOptimum ==
    \A t \in Threads :
        (th[t].pc = "loop" /\ th[t].moves = {} /\ th[t].legal # {}) =>
            /\ th[t].best_move # NoMove
            /\ \A m \in th[t].legal :
                  IF th[t].white
                  THEN Score(th[t].call_board, th[t].best_move)
                           >= Score(th[t].call_board, m)
                  ELSE Score(th[t].call_board, th[t].best_move)
                           <= Score(th[t].call_board, m)

\* A move that only equals the best evaluation so far does not replace
\* the move met first.
TieKeepsFirst ==
    \A t \in Threads :
        (th[t].pc = "pop" /\ th'[t].pc = "loop" /\ ~th[t].best_eval.inf
            /\ th[t].evaluation = th[t].best_eval.v)
                => th'[t].best_move = th[t].best_move

\* C15: find_best_move returns a one-ply greedy optimum: no legal move of
\* the board leads to a lower evaluation (higher, for white to move), a
\* tie is resolved for the move met first in the shuffled order, and the
\* random fallback is not taken when there is a legal move.
C15_SelectorIsGreedy == [][GreedyOptimum' /\ TieKeepsFirst]_vars

\* What the gate of handle_click takes for a pending automated turn.
PendingByGate == board.turn = AI_PLAYER \/ ai_is_thinking

Dispatched == {t \in Threads : th[t].pc = "start"}

\* C16: in chess_gui.py a human move that ends the game dispatches no
\* task; any other human move dispatches exactly one, and for as long as a
\* dispatched task has not finished the automated turn is pending.
C16_HumanMoveDispatchesOneTask ==
    variant = "ai" =>
        /\ applied.by = "human" =>
              Cardinality(Dispatched) = IF is_game_over(board) THEN 0 ELSE 1
        /\ TaskInFlight => PendingByGate

Cleared == selected_square = NoSquare /\ cached_moves = {}

\* C17: the selection is cleared by every applied move, by every reset and
\* by every handled invalid click, which changes nothing else and raises
\* no error; a handled click on another piece of the side to move selects
\* that piece instead.
C17_SelectionCleared ==
    /\ applied.by = "human" => Cleared
    /\ event.reset => Cleared
    /\ event.invalid # "no" =>
          Cleared /\ applied.by = "none" /\ main = "running"
    /\ event.reselects # NoSquare =>
          /\ selected_square = event.reselects
          /\ cached_moves = {mv \in legal_moves(board) :
                                mv.from = event.reselects}
          /\ applied.by = "none" /\ main = "running"

\* The undo of find_best_move by thread t: board.pop() has returned.
Undoes(t) == th[t].pc = "pop" /\ th'[t] # th[t]

\* find_best_move returns in thread t.
Returns(t) == th[t].pc = "loop" /\ th'[t].pc \in {"cap", "clear"}

\* C18: the look-ahead of find_best_move leaves the board as it found it:
\* the undo that follows a tentative push succeeds and restores the
\* placement, the side to move and the move history of the call, and the
\* board at the return is the board of the call.
C18_LookAheadRestoresBoard ==
    [][\A t \in Threads :
          /\ Undoes(t) => th'[t].pc = "loop" /\ board' = th[t].call_board
          /\ Returns(t) => board = th[t].call_board]_vars

\* C19: in chess_gui.py a move applied by handle_click is applied with
\* white to move and a move applied by make_ai_move with black to move,
\* and between two resets the applied moves alternate, the first by the
\* human, the next by the task, and so on.
C19_MoversAlternate ==
    [][variant = "ai" =>
          /\ applied'.by = "human" =>
                applied'.color = WHITE /\ last_mover # "human"
          /\ applied'.by = "ai" =>
                applied'.color = BLACK /\ last_mover = "human"]_vars

\* C20: in every reachable state of either program a selected square holds
\* a piece of the side to move, and the lookup of handle_click on the
\* selected square never meets an empty square.
C20_SelectedSquareHoldsOwnPiece ==
    /\ selected_square # NoSquare => OwnPieceAt(selected_square)
    /\ main = "running"

\* The tasks between their start and the application of their move.
BeforeApplication ==
    {t \in Threads :
        th[t].pc \in {"start", "list", "loop", "eval", "pop", "cap", "push"}}

\* All clicks are refused, the game is not over and no task is left.
Stranded ==
    /\ Gate /\ ~is_game_over(board)
    /\ \A t \in Threads : ~Live(t)

\* C21: in chess_gui.py, whenever the automated player is to move and the
\* game is not over, a task that has not yet applied its move is in flight,
\* and no state is reached where every click is refused, the game is not
\* over and no task is left.
C21_AutomatedTurnNeverStranded ==
    variant = "ai" =>
        /\ board.turn = AI_PLAYER /\ ~is_game_over(board) =>
              BeforeApplication # {}
        /\ ~Stranded

\* C22: in chess_gui.py a reset takes effect only when no task is between
\* its start and the application of its move.
C22_NoResetWhileTaskInFlight ==
    variant = "ai" /\ event.reset => BeforeApplication = {}

====
